---------------------------- MODULE Spec2Model ----------------------------
(***************************************************************************)
(* A model of the zaber_bson codec (src/src/zaber_bson/codec.py and        *)
(* __init__.py): dumps, loads, the element encoders, the container         *)
(* encoders with their traversal stack, decode_document and the class      *)
(* registry.                                                               *)
(*                                                                         *)
(* A byte string is a sequence of numbers 0..255.  Python integers are     *)
(* unbounded, so an integer is a sign and a little-endian magnitude of     *)
(* bytes; struct.pack and struct.unpack are computed on those bytes with   *)
(* their real widths.  Text is a sequence of code points and UTF-8 is      *)
(* computed.  Recursion of the code is an explicit stack of frames, one    *)
(* action per loop iteration or return.                                    *)
(***************************************************************************)
EXTENDS Integers, Sequences, FiniteSets, TLC

(***************************************************************************)
(* Sequence helpers.                                                       *)
(***************************************************************************)
Front(s) == SubSeq(s, 1, Len(s) - 1)

Last(s) == s[Len(s)]

Range(s) == {s[i] : i \in 1..Len(s)}

Zeros(n) == [i \in 1..n |-> 0]

(***************************************************************************)
(* Python slicing and indexing of a bytes object, with negative indices    *)
(* counted from the end and slice bounds clamped to the object.            *)
(***************************************************************************)
Clamp(i, n) ==
    IF i < 0 THEN (IF i + n >= 0 THEN i + n ELSE 0)
    ELSE IF i <= n THEN i ELSE n

PySlice(s, i, j) ==
    LET a == Clamp(i, Len(s))
        b == Clamp(j, Len(s))
    IN  IF a < b THEN SubSeq(s, a + 1, b) ELSE <<>>

\* data[i]: None stands for IndexError.
IndexOk(s, i) == i >= -Len(s) /\ i < Len(s)

PyIndex(s, i) == IF i < 0 THEN s[i + Len(s) + 1] ELSE s[i + 1]

\* data.index(0, start): the 0-based position of the first NUL at or after
\* start, or -1 where Python raises ValueError.
FindNul(s, start) ==
    LET a == Clamp(start, Len(s))
        hits == {i \in (a + 1)..Len(s) : s[i] = 0}
    IN  IF hits = {} THEN -1
        ELSE (CHOOSE i \in hits : \A j \in hits : i <= j) - 1

(***************************************************************************)
(* Unbounded integers: [neg, mag], mag the little-endian bytes of the      *)
(* absolute value without high zero bytes; zero is [FALSE, <<>>].          *)
(***************************************************************************)
RECURSIVE Norm(_)
Norm(m) == IF m # <<>> /\ Last(m) = 0 THEN Norm(Front(m)) ELSE m

Pad(m, n) == IF Len(m) >= n THEN m ELSE m \o Zeros(n - Len(m))

RECURSIVE MagCmpFrom(_, _, _)
MagCmpFrom(a, b, i) ==
    IF i = 0 THEN 0
    ELSE IF a[i] < b[i] THEN -1
    ELSE IF a[i] > b[i] THEN 1
    ELSE MagCmpFrom(a, b, i - 1)

\* -1, 0, 1 as a < b, a = b, a > b, for normalized magnitudes.
MagCmp(a, b) ==
    IF Len(a) < Len(b) THEN -1
    ELSE IF Len(a) > Len(b) THEN 1
    ELSE MagCmpFrom(a, b, Len(a))

RECURSIVE MagAddC(_, _, _)
MagAddC(a, b, c) ==
    IF a = <<>> /\ b = <<>> THEN (IF c = 0 THEN <<>> ELSE <<c>>)
    ELSE LET x == IF a = <<>> THEN 0 ELSE a[1]
             y == IF b = <<>> THEN 0 ELSE b[1]
             s == x + y + c
         IN  <<(s % 256)>> \o MagAddC(IF a = <<>> THEN a ELSE Tail(a),
                                    IF b = <<>> THEN b ELSE Tail(b), s \div 256)

MagAdd(a, b) == Norm(MagAddC(a, b, 0))

RECURSIVE MagSubB(_, _, _)
MagSubB(a, b, w) ==
    IF a = <<>> THEN <<>>
    ELSE LET y == IF b = <<>> THEN 0 ELSE b[1]
             d == a[1] - y - w
         IN  <<(d % 256)>> \o MagSubB(Tail(a), IF b = <<>> THEN b ELSE Tail(b),
                                    IF d < 0 THEN 1 ELSE 0)

\* a - b for magnitudes with a >= b.
MagSub(a, b) == Norm(MagSubB(a, b, 0))

MkInt(neg, mag) == [neg |-> neg /\ Norm(mag) # <<>>, mag |-> Norm(mag)]

RECURSIVE NatMag(_)
NatMag(n) == IF n = 0 THEN <<>> ELSE <<(n % 256)>> \o NatMag(n \div 256)

\* The integer n, for a number the model checker holds.
FromInt(n) == IF n < 0 THEN MkInt(TRUE, NatMag(-n)) ELSE MkInt(FALSE, NatMag(n))

RECURSIVE MagNat(_)
MagNat(m) == IF m = <<>> THEN 0 ELSE m[1] + 256 * MagNat(Tail(m))

RECURSIVE MagNegNat(_)
MagNegNat(m) == IF m = <<>> THEN 0 ELSE 256 * MagNegNat(Tail(m)) - m[1]

\* Back to a number, for -2^31 <= v < 2^31.
ToInt(v) == IF v.neg THEN MagNegNat(v.mag) ELSE MagNat(v.mag)

IntNeg(v) == MkInt(~v.neg, v.mag)

IntCmp(a, b) ==
    IF a.neg /\ ~b.neg THEN -1
    ELSE IF ~a.neg /\ b.neg THEN 1
    ELSE IF a.neg THEN MagCmp(b.mag, a.mag)
    ELSE MagCmp(a.mag, b.mag)

IntLt(a, b) == IntCmp(a, b) < 0

IntLe(a, b) == IntCmp(a, b) <= 0

IntAdd(a, b) ==
    IF a.neg = b.neg THEN MkInt(a.neg, MagAdd(a.mag, b.mag))
    ELSE IF MagCmp(a.mag, b.mag) >= 0 THEN MkInt(a.neg, MagSub(a.mag, b.mag))
    ELSE MkInt(b.neg, MagSub(b.mag, a.mag))

RECURSIVE MagMulC(_, _, _)
MagMulC(m, k, c) ==
    IF m = <<>> THEN NatMag(c)
    ELSE LET p == m[1] * k + c
         IN  <<(p % 256)>> \o MagMulC(Tail(m), k, p \div 256)

\* v * k for 0 <= k < 2^16.
IntMulSmall(v, k) == MkInt(v.neg, MagMulC(v.mag, k, 0))

\* Long division of a magnitude by 0 < k < 2^16, high byte first:
\* <<quotient bytes (little-endian), remainder>>.
RECURSIVE MagDivR(_, _)
MagDivR(m, k) ==
    IF m = <<>> THEN <<(<<>>), 0>>
    ELSE LET hi == MagDivR(Tail(m), k)
             cur == hi[2] * 256 + m[1]
         IN  <<(<<cur \div k>>) \o hi[1], cur % k>>

\* Floor division and modulus by 0 < k < 2^16, as Python's // and %.
IntFloorDiv(v, k) ==
    LET qr == MagDivR(v.mag, k)
    IN  IF ~v.neg THEN MkInt(FALSE, qr[1])
        ELSE IF qr[2] = 0 THEN MkInt(TRUE, qr[1])
        ELSE MkInt(TRUE, MagAdd(Norm(qr[1]), <<1>>))

IntMod(v, k) ==
    LET r == MagDivR(v.mag, k)[2]
    IN  IF ~v.neg \/ r = 0 THEN r ELSE k - r

\* 2^(8n)
Pow256(n) == Zeros(n) \o <<1>>

\* int.bit_length() of a normalized magnitude.
bit_length(m) ==
    IF m = <<>> THEN 0
    ELSE 8 * (Len(m) - 1) + (CHOOSE n \in 1..8 : 2^(n - 1) <= Last(m) /\ Last(m) < 2^n)

(***************************************************************************)
(* Results of a step that can raise: err is "" or the exception's name, b  *)
(* the value (bytes, for the encoders).  Then(r, s) is "r, then s": the    *)
(* first exception raised wins, as in the evaluation order of the code.    *)
(***************************************************************************)
Ok(b) == [err |-> "", b |-> b]

Raise(e) == [err |-> e, b |-> <<>>]

Then(r, s) ==
    IF r.err # "" THEN r
    ELSE IF s.err # "" THEN s
    ELSE Ok(r.b \o s.b)

(***************************************************************************)
(* struct.pack / struct.unpack in "<" (little-endian, standard size) mode. *)
(***************************************************************************)
SignedMin(n) == MkInt(TRUE, Zeros(n - 1) \o <<128>>)

SignedMax(n) == MkInt(FALSE, [i \in 1..n |-> IF i = n THEN 127 ELSE 255])

UnsignedMax(n) == MkInt(FALSE, [i \in 1..n |-> 255])

\* The n low bytes of v in two's complement.
TwosBytes(v, n) ==
    IF v.neg THEN Pad(MagSub(Pow256(n), v.mag), n) ELSE Pad(v.mag, n)

pack_signed(v, n) ==
    IF IntLt(v, SignedMin(n)) \/ IntLt(SignedMax(n), v)
    THEN Raise("struct.error")
    ELSE Ok(TwosBytes(v, n))

pack_unsigned(v, n) ==
    IF v.neg \/ IntLt(UnsignedMax(n), v)
    THEN Raise("struct.error")
    ELSE Ok(Pad(v.mag, n))

\* struct.pack("<i", v), ("<q", v), ("<Q", v), ("<b", v)
pack_i(v) == pack_signed(v, 4)

pack_q(v) == pack_signed(v, 8)

pack_Q(v) == pack_unsigned(v, 8)

pack_b(v) == pack_signed(v, 1)

\* struct.unpack of exactly n bytes.
from_signed(b) ==
    IF Last(b) >= 128 THEN MkInt(TRUE, MagSub(Pow256(Len(b)), Norm(b)))
    ELSE MkInt(FALSE, b)

unpack_signed(b, n) ==
    IF Len(b) # n THEN Raise("struct.error") ELSE Ok(from_signed(b))

unpack_unsigned(b, n) ==
    IF Len(b) # n THEN Raise("struct.error") ELSE Ok(MkInt(FALSE, b))

unpack_i(b) == unpack_signed(b, 4)

unpack_q(b) == unpack_signed(b, 8)

unpack_Q(b) == unpack_unsigned(b, 8)

unpack_b(b) == unpack_signed(b, 1)

(***************************************************************************)
(* UTF-8: str.encode("utf-8") and bytes.decode("utf-8"), both strict.      *)
(***************************************************************************)
IsSurrogate(c) == c >= 55296 /\ c <= 57343

utf8_char(c) ==
    IF c < 128 THEN <<c>>
    ELSE IF c < 2048 THEN <<192 + (c \div 64), 128 + (c % 64)>>
    ELSE IF c < 65536
    THEN <<224 + (c \div 4096), 128 + ((c \div 64) % 64), 128 + (c % 64)>>
    ELSE <<240 + (c \div 262144), 128 + ((c \div 4096) % 64),
           128 + ((c \div 64) % 64), 128 + (c % 64)>>

RECURSIVE utf8_bytes(_)
utf8_bytes(cp) ==
    IF cp = <<>> THEN <<>> ELSE utf8_char(cp[1]) \o utf8_bytes(Tail(cp))

\* value.encode("utf-8")
utf8_encode(cp) ==
    IF \E i \in 1..Len(cp) : IsSurrogate(cp[i])
    THEN Raise("UnicodeEncodeError")
    ELSE Ok(utf8_bytes(cp))

IsCont(b, i) == i <= Len(b) /\ b[i] >= 128 /\ b[i] <= 191

\* The length of the well-formed sequence starting at b[1], or 0.
utf8_lead(b) ==
    LET c == b[1]
        in2(lo, hi) == Len(b) >= 2 /\ b[2] >= lo /\ b[2] <= hi
    IN  IF c < 128 THEN 1
        ELSE IF c >= 194 /\ c <= 223 THEN (IF IsCont(b, 2) THEN 2 ELSE 0)
        ELSE IF c >= 224 /\ c <= 239
        THEN (IF /\ in2(IF c = 224 THEN 160 ELSE 128, IF c = 237 THEN 159 ELSE 191)
                 /\ IsCont(b, 3)
              THEN 3 ELSE 0)
        ELSE IF c >= 240 /\ c <= 244
        THEN (IF /\ in2(IF c = 240 THEN 144 ELSE 128, IF c = 244 THEN 143 ELSE 191)
                 /\ IsCont(b, 3) /\ IsCont(b, 4)
              THEN 4 ELSE 0)
        ELSE 0

utf8_point(b, n) ==
    IF n = 1 THEN b[1]
    ELSE IF n = 2 THEN (b[1] - 192) * 64 + (b[2] - 128)
    ELSE IF n = 3 THEN (b[1] - 224) * 4096 + (b[2] - 128) * 64 + (b[3] - 128)
    ELSE (b[1] - 240) * 262144 + (b[2] - 128) * 4096
         + (b[3] - 128) * 64 + (b[4] - 128)

\* value.decode("utf-8"): the code points, or UnicodeDecodeError.
RECURSIVE utf8_decode(_)
utf8_decode(b) ==
    IF b = <<>> THEN Ok(<<>>)
    ELSE LET n == utf8_lead(b)
         IN  IF n = 0 THEN Raise("UnicodeDecodeError")
             ELSE Then(Ok(<<utf8_point(b, n)>>),
                       utf8_decode(SubSeq(b, n + 1, Len(b))))

(***************************************************************************)
(* str() of an integer: the decimal digits as code points.                 *)
(***************************************************************************)
RECURSIVE MagDigits(_)
MagDigits(m) ==
    IF m = <<>> THEN <<>>
    ELSE LET qr == MagDivR(m, 10)
         IN  MagDigits(Norm(qr[1])) \o <<48 + qr[2]>>

str_int(v) ==
    IF v.mag = <<>> THEN <<48>>
    ELSE (IF v.neg THEN <<45>> ELSE <<>>) \o MagDigits(v.mag)

(***************************************************************************)
(* IEEE-754 binary64.  A float is [sign, exp, frac]: the sign bit, the     *)
(* 11-bit biased exponent and the 52 fraction bits, high bit first.        *)
(***************************************************************************)
RECURSIVE BitsOf(_, _)
BitsOf(n, w) == IF w = 0 THEN <<>> ELSE BitsOf(n \div 2, w - 1) \o <<(n % 2)>>

RECURSIVE NatOfBits(_)
NatOfBits(bits) ==
    IF bits = <<>> THEN 0 ELSE 2 * NatOfBits(Front(bits)) + Last(bits)

\* 8k bits, high bit first, as k bytes, low byte first.
RECURSIVE BitsToLE(_)
BitsToLE(bits) ==
    IF bits = <<>> THEN <<>>
    ELSE BitsToLE(SubSeq(bits, 9, Len(bits))) \o <<NatOfBits(SubSeq(bits, 1, 8))>>

RECURSIVE LEToBits(_)
LEToBits(b) ==
    IF b = <<>> THEN <<>> ELSE LEToBits(Tail(b)) \o BitsOf(b[1], 8)

\* struct.pack("<d", value)
pack_d(f) == BitsToLE(<<f.sign>> \o BitsOf(f.exp, 11) \o f.frac)

\* struct.unpack("<d", b)
unpack_d(b) ==
    IF Len(b) # 8 THEN Raise("struct.error")
    ELSE LET bits == LEToBits(b)
         IN  Ok([t |-> "float", sign |-> bits[1],
                 exp |-> NatOfBits(SubSeq(bits, 2, 12)),
                 frac |-> SubSeq(bits, 13, 64)])

\* float(Decimal): the nearest double, ties to even, of (-1)^sign * n / d
\* for small n >= 0, d > 0.
RECURSIVE Log2Floor(_, _)
Log2Floor(n, d) ==
    IF n >= 2 * d THEN 1 + Log2Floor(n, 2 * d)
    ELSE IF n < d THEN Log2Floor(2 * n, d) - 1
    ELSE 0

RECURSIVE Pow2(_)
Pow2(k) == IF k = 0 THEN 1 ELSE 2 * Pow2(k - 1)

\* <<the next w fraction bits of r/d, the remainder left>>, 0 <= r < d,
\* thirteen bits at a time.
RECURSIVE FracBits(_, _, _)
FracBits(r, d, w) ==
    IF w = 0 THEN <<(<<>>), r>>
    ELSE LET x == r * 8192
             rest == FracBits(x % d, d, w - 13)
         IN  <<BitsOf(x \div d, 13) \o rest[1], rest[2]>>

\* bits + 1; all ones wrap to all zeros.
BitsInc(bits) ==
    LET zero == {i \in 1..Len(bits) : bits[i] = 0}
    IN  IF zero = {} THEN Zeros(Len(bits))
        ELSE LET j == CHOOSE i \in zero : \A k \in zero : k <= i
             IN  [i \in 1..Len(bits) |->
                    IF i < j THEN bits[i] ELSE IF i = j THEN 1 ELSE 0]

float_of_ratio(sign, n, d) ==
    IF n = 0 THEN [t |-> "float", sign |-> sign, exp |-> 0, frac |-> Zeros(52)]
    ELSE LET e == Log2Floor(n, d)
             N == IF e < 0 THEN n * Pow2(-e) ELSE n
             D == IF e < 0 THEN d ELSE d * Pow2(e)
             fr == FracBits(N - D, D, 52)
             up == 2 * fr[2] > D \/ (2 * fr[2] = D /\ Last(fr[1]) = 1)
             carry == up /\ fr[1] = [i \in 1..52 |-> 1]
         IN  [t |-> "float", sign |-> sign,
              exp |-> e + 1023 + (IF carry THEN 1 ELSE 0),
              frac |-> IF up THEN BitsInc(fr[1]) ELSE fr[1]]

(***************************************************************************)
(* Values.  Every Python value is a record tagged by its type in field t:  *)
(*   bool [bv]; int, Int32, Int64, UInt64 [iv]; float [sign, exp, frac];   *)
(*   Decimal [sign, n, d] (the value n/d); str [cp]; bytes, UUID [by];     *)
(*   datetime [secs, micro, aware, off, off_micro] (the wall-clock fields  *)
(*   as seconds since 1970 and microseconds; whether tzinfo is set, and    *)
(*   its UTC offset as a timedelta has it: seconds, which may be negative, *)
(*   and 0 to 999999 microseconds more);                                   *)
(*   None; dict [items], a sequence of [k, v] in insertion order;          *)
(*   list, tuple [elems]; object [cls, state], an instance of a BSONCoding *)
(*   subclass with its __dict__; unknown [repr], any other value.          *)
(* A dictionary key is tagged in kt: str [cp], bytes [by], int [n], and    *)
(* other [text] for any other hashable value, text being its str().        *)
(***************************************************************************)
Bool(b) == [t |-> "bool", bv |-> b]

PyInt(v) == [t |-> "int", iv |-> v]

Wrapped(w, v) == [t |-> w, iv |-> v]

Str(cp) == [t |-> "str", cp |-> cp]

Bytes(by) == [t |-> "bytes", by |-> by]

Uuid(by) == [t |-> "UUID", by |-> by]

Datetime(secs, micro, aware, off, off_micro) ==
    [t |-> "datetime", secs |-> secs, micro |-> micro, aware |-> aware,
     off |-> off, off_micro |-> off_micro]

None == [t |-> "None"]

Dict(items) == [t |-> "dict", items |-> items]

List(elems) == [t |-> "list", elems |-> elems]

Tuple(elems) == [t |-> "tuple", elems |-> elems]

Object(cls, state) == [t |-> "object", cls |-> cls, state |-> state]

Decimal(sign, n, d) == [t |-> "Decimal", sign |-> sign, n |-> n, d |-> d]

Unknown(repr) == [t |-> "unknown", repr |-> repr]

Item(k, v) == [k |-> k, v |-> v]

KStr(cp) == [kt |-> "str", cp |-> cp]

KBytes(by) == [kt |-> "bytes", by |-> by]

KInt(n) == [kt |-> "int", n |-> n]

KOther(text) == [kt |-> "other", text |-> text]

\* A position in a list, as enumerate() gives it.
KIndex(i) == [kt |-> "index", idx |-> i]

\* "$$__CLASS_NAME__$$"
CLASSNAME_KEY ==
    KStr(<<36, 36, 95, 95, 67, 76, 65, 83, 83, 95, 78, 65, 77, 69, 95, 95, 36, 36>>)

\* The keys of a dict, in insertion order.
Keys(items) == [i \in 1..Len(items) |-> items[i].k]

HasKey(items, k) == \E i \in 1..Len(items) : items[i].k = k

\* obj[name], for a key the dict holds.
Lookup(items, k) == items[CHOOSE i \in 1..Len(items) : items[i].k = k].v

\* obj[name] = value: in place for a key the dict holds, appended otherwise.
DictSet(items, k, v) ==
    IF HasKey(items, k)
    THEN [i \in 1..Len(items) |-> IF items[i].k = k THEN Item(k, v) ELSE items[i]]
    ELSE Append(items, Item(k, v))

(***************************************************************************)
(* The byte-level encoders.                                                *)
(***************************************************************************)
\* str(value) of a key that is no bytes object.
str_key(name) ==
    IF name.kt = "str" THEN name.cp
    ELSE IF name.kt = "int" THEN str_int(name.n)
    ELSE name.text

\* A faulty encode_cstring: a NUL inside the name goes out as it is.
encode_cstring_unchecked(value) ==
    LET bvalue == IF value.kt = "bytes" THEN Ok(value.by)
                  ELSE utf8_encode(str_key(value))
    IN  IF bvalue.err # "" THEN bvalue ELSE Ok(bvalue.b \o <<0>>)

encode_cstring(value) ==
    LET bvalue == IF value.kt = "bytes" THEN Ok(value.by)
                  ELSE utf8_encode(str_key(value))
    IN  IF bvalue.err # "" THEN bvalue
        ELSE IF 0 \in Range(bvalue.b) THEN Raise("InvalidName")
        ELSE Ok(bvalue.b \o <<0>>)

encode_string(value) ==
    LET bvalue == utf8_encode(value)
    IN  IF bvalue.err # "" THEN bvalue
        ELSE Then(pack_i(FromInt(Len(bvalue.b) + 1)), Ok(bvalue.b \o <<0>>))

encode_binary(value, binary_subtype) ==
    Then(Then(pack_i(FromInt(Len(value))), pack_b(FromInt(binary_subtype))),
         Ok(value))

encode_double(value) == Ok(pack_d(value))

encode_double_element(name, value) ==
    Then(Ok(<<1>>), Then(encode_cstring(name), encode_double(value)))

encode_string_element(name, value) ==
    Then(Ok(<<2>>), Then(encode_cstring(name), encode_string(value)))

encode_binary_element(name, value, binary_subtype) ==
    Then(Ok(<<5>>), Then(encode_cstring(name), encode_binary(value, binary_subtype)))

\* A faulty encode_boolean_element: the boolean goes out as an int32.
encode_boolean_as_int(name, value) ==
    Then(Ok(<<16>>),
         Then(encode_cstring(name), pack_i(FromInt(IF value THEN 1 ELSE 0))))

encode_boolean_element(name, value) ==
    Then(Ok(<<8>>),
         Then(encode_cstring(name), pack_b(FromInt(IF value THEN 1 ELSE 0))))

\* The exponent of the doubles strictly between the integers n and n + 1:
\* their spacing is 2^(exponent - 52).  None of them is at or above 1 when
\* n is 0 or -1: the exponent is then given as -1.
binade(n) ==
    bit_length(IF n.neg THEN MagSub(n.mag, <<1>>) ELSE n.mag) - 1

\* int(round(millis + micro / 1000.0)) for an integer millis that is a
\* multiple of 1000 below 2^48 in size, and 0 <= micro < 10^6.  The sum is
\* a double: it is the double nearest to millis + micro / 1000, and that
\* is n + 0.5 (n the whole milliseconds) when the fraction is 0.5 or is
\* nearer to 0.5 than half the spacing of the doubles there.  round()
\* sends n + 0.5 to the even one of n and n + 1, and every other double to
\* the nearer one.
round_float_sum(millis, micro) ==
    LET q == micro \div 1000
        r == micro % 1000
        n == IntAdd(millis, FromInt(q))
        d == IF r < 500 THEN 500 - r ELSE r - 500
        \* half the spacing is 2^-j milliseconds
        j == 53 - binade(n)
        at_half == d = 0 \/ (j <= 9 /\ d * 2^j < 1000)
        up == IF at_half THEN q % 2 = 1 ELSE r > 500
    IN  IF up THEN IntAdd(n, FromInt(1)) ELSE n

\* The first and one past the last millisecond datetime can hold:
\* 0001-01-01 and 10000-01-01.
MinMillis == IntMulSmall(IntMulSmall(FromInt(-621355968), 1000), 100)

EndMillis ==
    IntAdd(IntMulSmall(IntMulSmall(FromInt(25340230), 10000), 1000), FromInt(800000))

\* calendar.timegm(value.utctimetuple()).  For a value with a tzinfo,
\* utctimetuple() takes the offset off the wall-clock time, which raises
\* OverflowError when that leaves the years 1 to 9999, and drops the
\* microseconds of the difference; a value without tzinfo is taken as it
\* is.
timegm_utc(value) ==
    LET borrow == IF value.micro < value.off_micro THEN 1 ELSE 0
        seconds == IntAdd(value.secs, FromInt(-value.off - borrow))
        millis == IntMulSmall(seconds, 1000)
    IN  IF ~value.aware THEN Ok(value.secs)
        ELSE IF IntLt(millis, MinMillis) \/ IntLe(EndMillis, millis)
        THEN Raise("OverflowError")
        ELSE Ok(seconds)

\* bvalue: the seconds of the UTC time and the microseconds of the
\* wall-clock time.
utc_millis(value) ==
    LET seconds == timegm_utc(value)
    IN  IF seconds.err # "" THEN seconds
        ELSE Ok(round_float_sum(IntMulSmall(seconds.b, 1000), value.micro))

\* The warnings encode_utc_datetime_element gives for value, under the
\* default filter (a warning is reported and the call goes on).
datetime_warnings(value) ==
    IF value.t = "datetime" /\ ~value.aware
    THEN <<"MissingTimezoneWarning">> ELSE <<>>

\* What encode_utc_datetime_element returns; its warning is
\* datetime_warnings(value).  bvalue is computed before the name is
\* encoded.
encode_utc_datetime_element(name, value) ==
    LET bvalue == utc_millis(value)
    IN  IF bvalue.err # "" THEN bvalue
        ELSE Then(Ok(<<9>>), Then(encode_cstring(name), pack_q(bvalue.b)))

encode_none_element(name) == Then(Ok(<<10>>), encode_cstring(name))

encode_int32_element(name, value) ==
    LET bvalue == pack_i(value)
    IN  IF bvalue.err # "" THEN bvalue
        ELSE Then(Ok(<<16>>), Then(encode_cstring(name), bvalue))

encode_uint64_element(name, value) ==
    Then(Ok(<<17>>), Then(encode_cstring(name), pack_Q(value)))

encode_int64_element(name, value) ==
    Then(Ok(<<18>>), Then(encode_cstring(name), pack_q(value)))

\* A faulty int_branch: the signed 64-bit range ends one short, at 2^63-2.
int_branch_short(value) ==
    IF \/ IntLt(value, SignedMin(4))
       \/ (IntLt(value, SignedMax(8)) /\ IntLt(SignedMax(4), value))
    THEN "int64"
    ELSE IF IntLe(SignedMax(8), value)
    THEN (IF IntLt(UnsignedMax(8), value) THEN "IntegerOverflow" ELSE "uint64")
    ELSE "int32"

\* The branch encode_value takes for a plain int: the encoder's name, or
\* the error raised.
int_branch(value) ==
    IF \/ IntLt(value, SignedMin(4))
       \/ (IntLe(value, SignedMax(8)) /\ IntLt(SignedMax(4), value))
    THEN "int64"
    ELSE IF IntLt(SignedMax(8), value)
    THEN (IF IntLt(UnsignedMax(8), value) THEN "IntegerOverflow" ELSE "uint64")
    ELSE "int32"

encode_int(name, value) ==
    LET branch == int_branch(value)
    IN  IF branch = "int64" THEN encode_int64_element(name, value)
        ELSE IF branch = "uint64" THEN encode_uint64_element(name, value)
        ELSE IF branch = "int32" THEN encode_int32_element(name, value)
        ELSE Raise(branch)

\* float(value) for a Decimal.
float_of_decimal(value) == float_of_ratio(value.sign, value.n, value.d)

IsContainer(value) == value.t \in {"dict", "list", "tuple", "object"}

\* encode_value for the values that need no recursion: what is written to
\* buf, or the exception.  The order of the cases is that of the code.
encode_value(name, value) ==
    CASE value.t = "bool" -> encode_boolean_element(name, value.bv)
      [] value.t = "int" -> encode_int(name, value.iv)
      [] value.t = "Int32" -> encode_int32_element(name, value.iv)
      [] value.t = "Int64" -> encode_int64_element(name, value.iv)
      [] value.t = "UInt64" -> encode_uint64_element(name, value.iv)
      [] value.t = "float" -> encode_double_element(name, value)
      [] value.t = "str" -> encode_string_element(name, value.cp)
      [] value.t = "bytes" -> encode_binary_element(name, value.by, 0)
      [] value.t = "UUID" -> encode_binary_element(name, value.by, 4)
      [] value.t = "datetime" -> encode_utc_datetime_element(name, value)
      [] value.t = "None" -> encode_none_element(name)
      [] value.t = "Decimal" -> encode_double_element(name, float_of_decimal(value))
      [] OTHER -> Raise("UnknownSerializerError")

(***************************************************************************)
(* The application's side of the interface: the BSONCoding subclasses the  *)
(* program is run with, and the hooks a caller may pass to dumps.          *)
(*   Point.bson_encode returns a new dict of the fields, Box.bson_encode   *)
(*   returns self.__dict__ itself; Point.bson_init updates self and        *)
(*   returns None, Box.bson_init updates self and returns the field "x"    *)
(*   of the mapping it was given (None without one).  Plain is a class     *)
(*   that does not derive from BSONCoding.                                 *)
(***************************************************************************)
CodingClasses == {"Point", "Box"}

\* cls.__name__ as text.
ClassNameText(cls) ==
    CASE cls = "Point" -> <<80, 111, 105, 110, 116>>
      [] cls = "Box" -> <<66, 111, 120>>
      [] OTHER -> <<80, 108, 97, 105, 110>>

\* obj.bson_encode(): the mapping returned, and whether it is the object's
\* own __dict__.
bson_encode(obj) == obj.state

ReturnsOwnDict(cls) == cls = "Box"

KeyX == KStr(<<120>>)

\* instance.bson_init(raw_values): <<the instance's __dict__ afterwards, the
\* value returned>>.
bson_init(cls, raw_values) ==
    <<raw_values,
      IF cls = "Box" /\ HasKey(raw_values, KeyX) THEN Lookup(raw_values, KeyX)
      ELSE None>>

Generators == {"none", "reversed", "but_last"}

Reverse(q) == [i \in 1..Len(q) |-> q[Len(q) + 1 - i]]

\* generator_func(obj, traversal_stack): the keys it yields.
generator_func(generator, items) ==
    IF generator = "reversed" THEN Reverse(Keys(items))
    ELSE IF items = <<>> THEN <<>>
    ELSE Front(Keys(items))

UnknownHooks == {"none", "repr"}

\* on_unknown(value): the substitute this hook returns.
on_unknown_func(value) == Str(value.repr)

\* bool(value)
Truthy(value) ==
    CASE value.t = "bool" -> value.bv
      [] value.t \in {"int", "Int32", "Int64", "UInt64"} -> value.iv.mag # <<>>
      [] value.t = "float" -> ~(value.exp = 0 /\ value.frac = Zeros(52))
      [] value.t = "str" -> value.cp # <<>>
      [] value.t = "bytes" -> value.by # <<>>
      [] value.t = "None" -> FALSE
      [] value.t = "dict" -> value.items # <<>>
      [] value.t \in {"list", "tuple"} -> value.elems # <<>>
      [] OTHER -> TRUE

(***************************************************************************)
(* State.                                                                  *)
(***************************************************************************)
VARIABLES
    classes,          \* codec.classes: the registered class names
    pc,               \* idle, dumps, dumped, dump_failed, loads, loaded, load_failed
    obj,              \* the argument of dumps, as it is now
    obj0,             \* the argument of dumps, as it was at the call
    generator,        \* the generator argument of dumps
    on_unknown,       \* the on_unknown argument of dumps
    estack,           \* the active calls of encode_document / encode_array
    traversal_stack,  \* the list dumps creates and every encoder shares
    hook_log,         \* every call of generator_func: its arguments as passed
    warned,           \* every warnings.warn of the last dumps
    out,              \* what dumps returned
    err,              \* the exception the last call raised, "" for none
    data,             \* the argument of loads
    dstack,           \* the active calls of decode_document
    calls,            \* every call of decode_document: its base
    result,           \* what loads returned
    first             \* the first dumps that returned: its argument and result

vars == <<classes, pc, obj, obj0, generator, on_unknown, estack, traversal_stack,
          hook_log, warned, out, err, data, dstack, calls, result, first>>

enc_vars == <<obj, obj0, generator, on_unknown, estack, traversal_stack,
              hook_log, warned, out>>

dec_vars == <<data, dstack, calls, result>>

NoValue == [t |-> "no value"]

\* A container of the argument of dumps: the value at path ("self"), or the
\* mapping its bson_encode returned ("values").
Ref(path, of) == [path |-> path, of |-> of]

TraversalStep(parent, key) == [parent |-> parent, key |-> key]

First(o, b) == [t |-> "first", obj |-> o, out |-> b]

(***************************************************************************)
(* Registration.                                                           *)
(***************************************************************************)
\* import_class(cls): a class that is no BSONCoding subclass is ignored.
import_class(cls) ==
    /\ pc = "idle"
    /\ classes' = IF cls \in CodingClasses THEN classes \cup {cls} ELSE classes
    /\ UNCHANGED <<pc, err, first>>
    /\ UNCHANGED enc_vars
    /\ UNCHANGED dec_vars

(***************************************************************************)
(* Encoding.  A frame of estack is one active call of encode_document or   *)
(* encode_array: the container's items (a list's items have its indices    *)
(* as keys), the keys still to visit, buf, the bytes to put before the     *)
(* container in the caller's buf (tag and name), the container's path in   *)
(* the argument of dumps and the parent its traversal steps carry.         *)
(***************************************************************************)
\* The item of a container that key names.
RECURSIVE SetAt(_, _, _)
SetAt(value, path, new) ==
    IF path = <<>> THEN new
    ELSE LET k == path[1]
         IN  CASE value.t = "dict" ->
                    Dict(DictSet(value.items, k,
                                 SetAt(Lookup(value.items, k), Tail(path), new)))
               [] value.t = "object" ->
                    Object(value.cls,
                           DictSet(value.state, k,
                                   SetAt(Lookup(value.state, k), Tail(path), new)))
               [] OTHER ->
                    [value EXCEPT !.elems[k.idx + 1] =
                        SetAt(value.elems[k.idx + 1], Tail(path), new)]

Indexed(elems) == [i \in 1..Len(elems) |-> Item(KIndex(i - 1), elems[i])]

\* encode_object up to its call of encode_document: the mapping it passes.
encode_object(value) ==
    DictSet(bson_encode(value), CLASSNAME_KEY, Str(ClassNameText(value.cls)))

\* The argument of dumps after encode_object has run on the object at path.
object_after(root, path, value) ==
    IF ReturnsOwnDict(value.cls)
    THEN SetAt(root, path, Object(value.cls, encode_object(value)))
    ELSE root

\* The key order of encode_document.
key_iter(items, gen) ==
    IF gen # "none" THEN generator_func(gen, items) ELSE Keys(items)

\* The start of encode_document (dict, object) or encode_array (list, tuple)
\* on the container value found at path.
encode_enter(value, path, prefix, gen) ==
    LET items == CASE value.t = "dict" -> value.items
                   [] value.t = "object" -> encode_object(value)
                   [] OTHER -> Indexed(value.elems)
        isdoc == value.t \in {"dict", "object"}
    IN  [kind |-> IF isdoc THEN "document" ELSE "array",
         items |-> items,
         keys |-> IF isdoc THEN key_iter(items, gen) ELSE Keys(items),
         i |-> 1,
         buf |-> <<>>,
         prefix |-> prefix,
         path |-> path,
         obj |-> Ref(path, IF value.t = "object" THEN "values" ELSE "self"),
         parent |-> Ref(path, "self")]

\* What generator_func is called with when the frame is entered.
hook_call(frame, stack, gen) ==
    IF frame.kind = "document" /\ gen # "none"
    THEN <<[obj |-> frame.obj, stack |-> stack]>>
    ELSE <<>>

\* encode_value's last branch: an unclassified value is replaced by what
\* on_unknown returns, and dispatched again.
RECURSIVE substitute(_, _)
substitute(value, hook) ==
    IF value.t = "unknown" /\ hook # "none"
    THEN substitute(on_unknown_func(value), hook)
    ELSE value

ContainerTag(value) == IF value.t \in {"list", "tuple"} THEN 4 ELSE 3

\* The name an element is written under.
element_name(frame, key) ==
    IF frame.kind = "array" THEN KStr(str_int(FromInt(key.idx))) ELSE key

\* dumps(obj, generator, on_unknown), up to the first loop iteration.
dumps(o, gen, unk) ==
    /\ obj0' = o
    /\ obj' = IF o.t = "object" THEN object_after(o, <<>>, o) ELSE o
    /\ generator' = gen
    /\ on_unknown' = unk
    /\ traversal_stack' = <<>>
    /\ estack' = <<encode_enter(o, <<>>, <<>>, gen)>>
    /\ hook_log' = hook_call(encode_enter(o, <<>>, <<>>, gen), <<>>, gen)
    /\ warned' = <<>>
    /\ out' = <<>>
    /\ err' = ""
    /\ pc' = "dumps"

Dumps(o, gen, unk) ==
    /\ pc = "idle"
    /\ dumps(o, gen, unk)
    /\ UNCHANGED <<classes, first>>
    /\ UNCHANGED dec_vars

\* One iteration of the for loop of encode_document / encode_array whose
\* value is written without recursion, or raises.
EncodeScalar ==
    /\ pc = "dumps"
    /\ LET f == Last(estack)
       IN  /\ f.i <= Len(f.keys)
           /\ LET key == f.keys[f.i]
                  name == element_name(f, key)
                  value == substitute(Lookup(f.items, key), on_unknown)
                  r == encode_value(name, value)
              IN  /\ ~IsContainer(value)
                  /\ warned' = warned \o datetime_warnings(value)
                  /\ IF r.err # ""
                     THEN /\ pc' = "dump_failed"
                          /\ err' = r.err
                          /\ estack' = <<>>
                          /\ traversal_stack' =
                                Append(traversal_stack, TraversalStep(f.parent, key))
                     ELSE /\ estack' = [estack EXCEPT ![Len(estack)] =
                                           [f EXCEPT !.buf = f.buf \o r.b,
                                                     !.i = f.i + 1]]
                          /\ UNCHANGED <<pc, err, traversal_stack>>
    /\ UNCHANGED <<classes, obj, obj0, generator, on_unknown, hook_log, out, first>>
    /\ UNCHANGED dec_vars

\* One iteration whose value is a dict, a list, a tuple or a BSONCoding
\* object: the step is pushed, the tag and name are encoded, and
\* encode_document / encode_array is entered.
EncodeDescend ==
    /\ pc = "dumps"
    /\ LET f == Last(estack)
       IN  /\ f.i <= Len(f.keys)
           /\ LET key == f.keys[f.i]
                  name == element_name(f, key)
                  value == substitute(Lookup(f.items, key), on_unknown)
                  prefix == Then(Ok(<<ContainerTag(value)>>), encode_cstring(name))
                  pushed == Append(traversal_stack, TraversalStep(f.parent, key))
                  child == encode_enter(value, Append(f.path, key), prefix.b, generator)
              IN  /\ IsContainer(value)
                  /\ traversal_stack' = pushed
                  /\ IF prefix.err # ""
                     THEN /\ pc' = "dump_failed"
                          /\ err' = prefix.err
                          /\ estack' = <<>>
                          /\ UNCHANGED <<obj, hook_log>>
                     ELSE /\ estack' = Append(estack, child)
                          /\ hook_log' = hook_log \o hook_call(child, pushed, generator)
                          /\ obj' = IF value.t = "object"
                                    THEN object_after(obj, child.path, value)
                                    ELSE obj
                          /\ UNCHANGED <<pc, err>>
    /\ UNCHANGED <<classes, obj0, generator, on_unknown, warned, out, first>>
    /\ UNCHANGED dec_vars

\* A faulty pack_document: the length leaves the terminator out.
pack_document_short(e_list) ==
    Then(pack_i(FromInt(Len(e_list) + 4)), Ok(e_list \o <<0>>))

\* The end of encode_document / encode_array: the length, the elements and
\* the terminator.
pack_document(e_list) ==
    Then(pack_i(FromInt(Len(e_list) + 4 + 1)), Ok(e_list \o <<0>>))

\* A faulty EncodeReturn: the step pushed for a nested container is left on
\* the traversal stack.
EncodeReturnNoPop ==
    /\ pc = "dumps"
    /\ LET f == Last(estack)
           packed == pack_document(f.buf)
       IN  /\ f.i > Len(f.keys)
           /\ IF Len(estack) = 1
              THEN /\ out' = packed.b
                   /\ first' = IF first = NoValue THEN First(obj0, packed.b) ELSE first
                   /\ pc' = "dumped"
                   /\ estack' = <<>>
              ELSE LET g == estack[Len(estack) - 1]
                   IN  /\ estack' = Append(SubSeq(estack, 1, Len(estack) - 2),
                                           [g EXCEPT !.buf = g.buf \o f.prefix \o packed.b,
                                                     !.i = g.i + 1])
                       /\ UNCHANGED <<out, first, pc>>
    /\ UNCHANGED <<classes, obj, obj0, generator, on_unknown, hook_log, warned,
                   err, traversal_stack>>
    /\ UNCHANGED dec_vars

\* The return of a nested encode_document / encode_array into the
\* iteration that called it, or of the outermost one to dumps.
EncodeReturn ==
    /\ pc = "dumps"
    /\ LET f == Last(estack)
           packed == pack_document(f.buf)
       IN  /\ f.i > Len(f.keys)
           /\ IF Len(estack) = 1
              THEN /\ out' = packed.b
                   /\ first' = IF first = NoValue THEN First(obj0, packed.b) ELSE first
                   /\ pc' = "dumped"
                   /\ estack' = <<>>
                   /\ UNCHANGED traversal_stack
              ELSE LET g == estack[Len(estack) - 1]
                   IN  /\ estack' = Append(SubSeq(estack, 1, Len(estack) - 2),
                                           [g EXCEPT !.buf = g.buf \o f.prefix \o packed.b,
                                                     !.i = g.i + 1])
                       /\ traversal_stack' = Front(traversal_stack)
                       /\ UNCHANGED <<out, first, pc>>
    /\ UNCHANGED <<classes, obj, obj0, generator, on_unknown, hook_log, warned,
                   err>>
    /\ UNCHANGED dec_vars

(***************************************************************************)
(* Decoding.  A frame of dstack is one active call of decode_document:     *)
(* base, end_point, retval (a list's items have its indices as keys),      *)
(* as_array, and the name of the element whose nested document is being    *)
(* decoded by the call above it.                                           *)
(***************************************************************************)
HexDigit(n) == IF n < 10 THEN 48 + n ELSE 87 + n

\* binascii.b2a_hex
RECURSIVE b2a_hex(_)
b2a_hex(b) ==
    IF b = <<>> THEN <<>>
    ELSE <<HexDigit(b[1] \div 16), HexDigit(b[1] % 16)>> \o b2a_hex(Tail(b))

decode_binary_subtype(value, binary_subtype) ==
    IF binary_subtype \in {3, 4}
    THEN (IF Len(value) = 16 THEN Ok(Uuid(value)) ELSE Raise("ValueError"))
    ELSE Ok(Bytes(value))

\* num / den rounded to the nearest integer, a tie to the even one.
round_half_even(num, den) ==
    LET q == num \div den
        rem == num % den
    IN  IF 2 * rem > den \/ (2 * rem = den /\ q % 2 = 1) THEN q + 1 ELSE q

\* The microseconds of the double millis / 1000.0 where it lies between
\* the seconds s and s + 1, r = millis % 1000 being above 0.  The double
\* is s + g, g the multiple of 2^-j nearest to r / 1000 (2^-j the spacing
\* of the doubles there); modf() cuts it towards zero into a whole part
\* and a fraction, the fraction times 10^6 is rounded, a tie to the even
\* side, and a negative result is carried into the second below.  Up to
\* 2^33 seconds g is within half a microsecond of r / 1000.
\* <<seconds, microseconds>>.
float_seconds(s, r) ==
    LET k == binade(s)
        j == 52 - k
        g == (r * 2^j + 500) \div 1000
        p == IF s.neg THEN 2^j - g ELSE g
        w == 2^(j - 6)
        us == (p \div w) * 15625 + round_half_even((p % w) * 15625, w)
    IN  IF k < 33 THEN <<s, r * 1000>>
        ELSE IF ~s.neg THEN <<s, us>>
        ELSE IF us = 0 THEN <<IntAdd(s, FromInt(1)), 0>>
        ELSE <<s, 1000000 - us>>

\* datetime.fromtimestamp(millis / 1000.0, tz=timezone.utc).
fromtimestamp(millis) ==
    LET s == IntFloorDiv(millis, 1000)
        r == IntMod(millis, 1000)
        t == IF r = 0 THEN <<s, 0>> ELSE float_seconds(s, r)
    IN  IF IntLt(millis, MinMillis) \/ IntLe(EndMillis, millis)
        THEN Raise("ValueError")
        ELSE Ok(Datetime(t[1], t[2], TRUE, 0, 0))

\* A faulty decode_enter: the byte that ends the document is not looked at.
decode_enter_unchecked(buffer, base, as_array) ==
    LET length == unpack_i(PySlice(buffer, base, base + 4))
        end_point == base + ToInt(length.b)
    IN  IF length.err # "" THEN length
        ELSE Ok([base |-> base + 4, end_point |-> end_point, retval |-> <<>>,
                 as_array |-> as_array, name |-> KStr(<<>>)])

\* The entry of decode_document(data, base, as_array): the length, the
\* terminator check and the empty retval.
decode_enter(buffer, base, as_array) ==
    LET length == unpack_i(PySlice(buffer, base, base + 4))
        end_point == base + ToInt(length.b)
    IN  IF length.err # "" THEN length
        ELSE IF ~IndexOk(buffer, end_point - 1) THEN Raise("IndexError")
        ELSE IF PyIndex(buffer, end_point - 1) # 0 THEN Raise("MalformedDocument")
        ELSE Ok([base |-> base + 4, end_point |-> end_point, retval |-> <<>>,
                 as_array |-> as_array, name |-> KStr(<<>>)])

\* The name of the element at base, as the loop decodes it: text, or the
\* raw bytes when they are no UTF-8.
decode_name(buffer, base, ll) ==
    LET raw == PySlice(buffer, base + 1, ll - 1)
        text == utf8_decode(raw)
    IN  IF text.err = "" THEN KStr(text.b) ELSE KBytes(raw)

\* The payload of an element of type element_type at base:
\* [err, value, base], base being the cursor after it.
decode_payload(buffer, element_type, base) ==
    LET V(r, n) == [err |-> r.err, value |-> r.b, base |-> base + n]
        i4 == unpack_i(PySlice(buffer, base, base + 4))
        i8 == unpack_q(PySlice(buffer, base, base + 8))
    IN  CASE element_type = 1 -> V(unpack_d(PySlice(buffer, base, base + 8)), 8)
          [] element_type = 2 ->
               IF i4.err # "" THEN V(i4, 0)
               ELSE LET length == ToInt(i4.b)
                        text == utf8_decode(PySlice(buffer, base + 4,
                                                    base + 4 + length - 1))
                    IN  V(IF text.err # "" THEN text ELSE Ok(Str(text.b)), 4 + length)
          [] element_type = 5 ->
               LET head == PySlice(buffer, base, base + 5)
               IN  IF Len(head) # 5 THEN V(Raise("struct.error"), 0)
                   ELSE LET length == ToInt(from_signed(SubSeq(head, 1, 4)))
                            binary_subtype == ToInt(from_signed(<<head[5]>>))
                        IN  V(decode_binary_subtype(
                                  PySlice(buffer, base + 5, base + 5 + length),
                                  binary_subtype), 5 + length)
          [] element_type = 7 -> V(Ok(Bytes(b2a_hex(PySlice(buffer, base, base + 12)))), 12)
          [] element_type = 8 ->
               LET c == unpack_b(PySlice(buffer, base, base + 1))
               IN  V(IF c.err # "" THEN c ELSE Ok(Bool(c.b.mag # <<>>)), 1)
          [] element_type = 9 ->
               V(IF i8.err # "" THEN i8 ELSE fromtimestamp(i8.b), 8)
          [] element_type = 10 -> V(Ok(None), 0)
          [] element_type = 16 -> V(IF i4.err # "" THEN i4 ELSE Ok(PyInt(i4.b)), 4)
          [] element_type = 17 ->
               LET u == unpack_Q(PySlice(buffer, base, base + 8))
               IN  V(IF u.err # "" THEN u ELSE Ok(PyInt(u.b)), 8)
          [] element_type = 18 -> V(IF i8.err # "" THEN i8 ELSE Ok(PyInt(i8.b)), 8)
          [] OTHER -> V(Raise("UnknownElementType"), 0)

\* The tag and the name of the element at the cursor of frame f:
\* [err, element_type, name, base], base being the cursor after the name.
decode_header(buffer, f) ==
    LET tag == unpack_b(PySlice(buffer, f.base, f.base + 1))
        nul == FindNul(buffer, f.base + 1)
        ll == nul + 1
    IN  IF tag.err # "" THEN [err |-> tag.err, element_type |-> 0,
                             name |-> KStr(<<>>), base |-> f.base]
        ELSE IF nul < 0 THEN [err |-> "ValueError", element_type |-> 0,
                              name |-> KStr(<<>>), base |-> f.base]
        ELSE [err |-> "", element_type |-> ToInt(tag.b),
              name |-> IF f.as_array THEN KStr(<<>>)
                       ELSE decode_name(buffer, f.base, ll),
              base |-> ll]

\* A faulty store: a new name goes to the front of the mapping.
store_front(f, name, value) ==
    IF f.as_array
    THEN Append(f.retval, Item(KIndex(Len(f.retval)), value))
    ELSE IF HasKey(f.retval, name) THEN DictSet(f.retval, name, value)
    ELSE <<Item(name, value)>> \o f.retval

\* retval.append(value) or retval[name] = value
store(f, name, value) ==
    IF f.as_array
    THEN Append(f.retval, Item(KIndex(Len(f.retval)), value))
    ELSE DictSet(f.retval, name, value)

Hashable(value) == value.t \notin {"dict", "list"}

decode_object(raw_values, registry) ==
    LET class_name == Lookup(raw_values, CLASSNAME_KEY)
        found == {c \in registry :
                     class_name.t = "str" /\ ClassNameText(c) = class_name.cp}
    IN  IF ~Hashable(class_name) THEN Raise("TypeError")
        ELSE IF found = {} THEN Raise("MissingClassDefinition")
        ELSE LET cls == CHOOSE c \in found : TRUE
                 init == bson_init(cls, raw_values)
                 retval == Object(cls, init[1])
                 alt_retval == init[2]
             IN  Ok(IF Truthy(alt_retval) THEN alt_retval ELSE retval)

\* What decode_document returns once its loop has ended.
decode_finish(f, registry) ==
    IF f.as_array THEN Ok(List([i \in 1..Len(f.retval) |-> f.retval[i].v]))
    ELSE IF HasKey(f.retval, CLASSNAME_KEY) THEN decode_object(f.retval, registry)
    ELSE Ok(Dict(f.retval))

\* loads(data), up to the first loop iteration.
Loads(buffer) ==
    /\ pc = "dumped"
    /\ data' = buffer
    /\ calls' = <<0>>
    /\ result' = NoValue
    /\ LET r == decode_enter(buffer, 0, FALSE)
       IN  IF r.err # ""
           THEN /\ pc' = "load_failed"
                /\ err' = r.err
                /\ dstack' = <<>>
           ELSE /\ pc' = "loads"
                /\ err' = ""
                /\ dstack' = <<r.b>>
    /\ UNCHANGED <<classes, first>>
    /\ UNCHANGED enc_vars

\* One iteration of the while loop for an element that is no document and
\* no array.
DecodeScalar ==
    /\ pc = "loads"
    /\ LET f == Last(dstack)
           h == decode_header(data, f)
           p == decode_payload(data, h.element_type, h.base)
       IN  /\ f.base < f.end_point - 1
           /\ h.err # "" \/ h.element_type \notin {3, 4}
           /\ IF h.err # "" \/ p.err # ""
              THEN /\ pc' = "load_failed"
                   /\ err' = IF h.err # "" THEN h.err ELSE p.err
                   /\ dstack' = <<>>
              ELSE /\ dstack' = [dstack EXCEPT ![Len(dstack)] =
                                    [f EXCEPT !.base = p.base,
                                              !.retval = store(f, h.name, p.value)]]
                   /\ UNCHANGED <<pc, err>>
    /\ UNCHANGED <<classes, data, calls, result, first>>
    /\ UNCHANGED enc_vars

\* One iteration for an element of type 0x03 or 0x04, up to the first loop
\* iteration of the decode_document it calls.
DecodeDescend ==
    /\ pc = "loads"
    /\ LET f == Last(dstack)
           h == decode_header(data, f)
           r == decode_enter(data, h.base, h.element_type = 4)
       IN  /\ f.base < f.end_point - 1
           /\ h.err = ""
           /\ h.element_type \in {3, 4}
           /\ calls' = Append(calls, h.base)
           /\ IF r.err # ""
              THEN /\ pc' = "load_failed"
                   /\ err' = r.err
                   /\ dstack' = <<>>
              ELSE /\ dstack' = Append([dstack EXCEPT ![Len(dstack)] =
                                           [f EXCEPT !.name = h.name]], r.b)
                   /\ UNCHANGED <<pc, err>>
    /\ UNCHANGED <<classes, data, result, first>>
    /\ UNCHANGED enc_vars

\* The return of decode_document: to the iteration that called it, which
\* stores the value and moves its cursor to end_point, or to loads.
DecodeReturn ==
    /\ pc = "loads"
    /\ LET f == Last(dstack)
           r == decode_finish(f, classes)
       IN  /\ ~(f.base < f.end_point - 1)
           /\ IF r.err # ""
              THEN /\ pc' = "load_failed"
                   /\ err' = r.err
                   /\ dstack' = <<>>
                   /\ UNCHANGED result
              ELSE IF Len(dstack) = 1
              THEN /\ pc' = "loaded"
                   /\ result' = r.b
                   /\ dstack' = <<>>
                   /\ UNCHANGED err
              ELSE LET g == dstack[Len(dstack) - 1]
                   IN  /\ dstack' = Append(SubSeq(dstack, 1, Len(dstack) - 2),
                                           [g EXCEPT !.base = f.end_point,
                                                     !.retval = store(g, g.name, r.b)])
                       /\ UNCHANGED <<pc, err, result>>
    /\ UNCHANGED <<classes, data, calls, first>>
    /\ UNCHANGED enc_vars

\* dumps(loads(data)) with the hooks of the first call, for an undamaged
\* data.
Redump ==
    /\ pc = "loaded"
    /\ first # NoValue
    /\ data = first.out
    /\ out = first.out
    /\ result.t \in {"dict", "object"}
    /\ dumps(result, generator, on_unknown)
    /\ UNCHANGED <<classes, first>>
    /\ UNCHANGED dec_vars

(***************************************************************************)
(* The inputs the program is run on.                                       *)
(***************************************************************************)
\* The largest number of elements, over all nesting levels, of a generated
\* tree, and the deepest nesting a sample document is wrapped in.
MaxElems == 3

MaxDepth == 1

TwoTo31 == MkInt(FALSE, <<0, 0, 0, 128>>)

TwoTo63 == MkInt(FALSE, Zeros(7) \o <<128>>)

TwoTo64 == MkInt(FALSE, Pow256(8))

BoundaryInts ==
    {FromInt(0), FromInt(-1), SignedMax(4), TwoTo31, SignedMin(4),
     IntAdd(SignedMin(4), FromInt(-1)), SignedMax(8), TwoTo63, UnsignedMax(8),
     TwoTo64, SignedMin(8), IntAdd(SignedMin(8), FromInt(-1))}

NaN == [t |-> "float", sign |-> 0, exp |-> 2047, frac |-> <<1>> \o Zeros(51)]

\* The sample timestamps have three at 2600-01-01 and 1200-01-01, where
\* the doubles are more than a microsecond apart: a fraction of a
\* millisecond that the float sum moves onto a half, and a whole
\* millisecond.  The last three are 0001-01-01 00:00 in a zone an hour
\* ahead, which is before the year 1 in UTC, 5.2 seconds in a zone 1.5
\* seconds ahead, and the last half millisecond of the year 9999.
SampleScalars ==
    {Bool(TRUE), Bool(FALSE)}
    \cup {PyInt(v) : v \in BoundaryInts}
    \cup {Wrapped("Int32", FromInt(5)), Wrapped("Int32", TwoTo31),
          Wrapped("Int64", FromInt(-1)), Wrapped("UInt64", UnsignedMax(8)),
          Wrapped("UInt64", FromInt(-1))}
    \cup {float_of_ratio(0, 3, 2), float_of_ratio(1, 0, 1), NaN}
    \cup {Decimal(0, 1, 10), Decimal(1, 15, 10)}
    \cup {Str(<<>>), Str(<<233, 8364>>), Str(<<97, 0, 98>>)}
    \cup {Bytes(<<>>), Bytes(<<0, 255>>)}
    \cup {Uuid([i \in 1..16 |-> i - 1])}
    \cup {Datetime(FromInt(0), 0, TRUE, 0, 0), Datetime(FromInt(-1), 998500, TRUE, 0, 0),
          Datetime(FromInt(5), 1500, TRUE, 3600, 0),
          Datetime(FromInt(1), 999500, FALSE, 0, 0),
          Datetime(FromInt(86400), 123999, TRUE, 0, 0)}
    \cup {Datetime(IntMulSmall(FromInt(198808992), 100), 1499, TRUE, 0, 0),
          Datetime(IntMulSmall(FromInt(-242988768), 100), 1499, TRUE, 0, 0),
          Datetime(IntMulSmall(FromInt(-242988768), 100), 1000, FALSE, 0, 0)}
    \cup {Datetime(IntMulSmall(FromInt(-621355968), 100), 0, TRUE, 3600, 0),
          Datetime(FromInt(5), 200000, TRUE, 1, 500000),
          Datetime(IntAdd(IntFloorDiv(EndMillis, 1000), FromInt(-1)),
                   999500, TRUE, 0, 0)}
    \cup {None, Unknown(<<123, 49, 125>>)}

SampleKeys ==
    {KStr(<<107, 101, 121>>), KStr(<<>>), KStr(<<233>>), KStr(<<128512>>),
     KStr(<<97, 0>>), KBytes(<<98>>), KBytes(<<255>>), KBytes(<<0>>),
     KInt(FromInt(7)), KOther(<<0>>), CLASSNAME_KEY}

\* The key of the i-th item of a generated dict.
TreeKey(i) ==
    IF i = 1 THEN KStr(<<97>>)
    ELSE IF i = 2 THEN KStr(<<233>>)
    ELSE KStr(<<97>> \o str_int(FromInt(i)))

\* The sequences of values with n elements in all, nested ones counted.
RECURSIVE TreeSeqs(_)
TreeValues(size) ==
    IF size = 1 THEN {Bool(TRUE), Str(<<8364>>), Dict(<<>>), List(<<>>)}
    ELSE {Dict([i \in 1..Len(q) |-> Item(TreeKey(i), q[i])]) : q \in TreeSeqs(size - 1)}
         \cup {List(q) : q \in TreeSeqs(size - 1)}

TreeSeqs(n) ==
    IF n = 0 THEN {<<>>}
    ELSE UNION {{<<v>> \o q : v \in TreeValues(size), q \in TreeSeqs(n - size)} :
                size \in 1..n}

TreeDocs ==
    UNION {{Dict([i \in 1..Len(q) |-> Item(TreeKey(i), q[i])]) : q \in TreeSeqs(n)} :
           n \in 0..MaxElems}

SampleStates ==
    {<<>>,
     <<Item(KeyX, PyInt(FromInt(0)))>>,
     <<Item(KeyX, PyInt(FromInt(5)))>>,
     <<Item(KeyX, Str(<<>>)), Item(KStr(<<121>>), Bool(TRUE))>>,
     <<Item(KStr(<<121>>), Bool(TRUE))>>,
     <<Item(KeyX, Dict(<<>>))>>,
     <<Item(KeyX, List(<<Bool(FALSE)>>))>>,
     <<Item(KeyX, Object("Point", <<Item(KeyX, None)>>))>>,
     <<Item(KeyX, Object("Box", <<Item(KeyX, Str(<<97>>))>>))>>}

SampleObjects == {Object(c, st) : c \in CodingClasses, st \in SampleStates}

\* One-element documents over every sample key and scalar, and the sample
\* objects.
CoreValues ==
    {Dict(<<Item(k, v)>>) : k \in SampleKeys, v \in SampleScalars} \cup SampleObjects

KeyW == KStr(<<119>>)

\* value inside depth more containers: each level a dict, or a list
\* inside a dict.
RECURSIVE Wrapped_in(_, _)
Wrapped_in(values, depth) ==
    IF depth = 0 THEN values
    ELSE LET inner == Wrapped_in(values, depth - 1)
         IN  {Dict(<<Item(KeyW, v)>>) : v \in inner}
             \cup {Dict(<<Item(KeyW, List(<<None, v>>))>>) : v \in inner}

\* {7: True, "7": False}: two keys with one name.
CollidingDoc ==
    Dict(<<Item(KInt(FromInt(7)), Bool(TRUE)), Item(KStr(<<55>>), Bool(FALSE))>>)

\* The last two hold tuples: one of a scalar and an empty tuple, and one of
\* a list and a timestamp.
SampleDocs ==
    TreeDocs \cup UNION {Wrapped_in(CoreValues, d) : d \in 0..MaxDepth}
    \cup {CollidingDoc}
    \cup {Dict(<<Item(KeyW, Tuple(<<Bool(TRUE), Tuple(<<>>)>>))>>),
          Dict(<<Item(KeyW, Tuple(<<List(<<None>>),
                                    Datetime(FromInt(5), 1500, TRUE, 3600, 0)>>))>>)}

\* Whether value holds a BSONCoding object or the class-marker key: the
\* only values whose decoding reads the registry.
RECURSIVE NamesClass(_)
NamesClass(value) ==
    CASE value.t = "object" -> TRUE
      [] value.t = "dict" ->
           \E i \in 1..Len(value.items) :
               value.items[i].k = CLASSNAME_KEY \/ NamesClass(value.items[i].v)
      [] value.t \in {"list", "tuple"} ->
           \E i \in 1..Len(value.elems) : NamesClass(value.elems[i])
      [] OTHER -> FALSE

RECURSIVE HasUnknown(_)
HasUnknown(value) ==
    CASE value.t = "unknown" -> TRUE
      [] value.t = "dict" ->
           \E i \in 1..Len(value.items) : HasUnknown(value.items[i].v)
      [] value.t = "object" ->
           \E i \in 1..Len(value.state) : HasUnknown(value.state[i].v)
      [] value.t \in {"list", "tuple"} ->
           \E i \in 1..Len(value.elems) : HasUnknown(value.elems[i])
      [] OTHER -> FALSE

\* The buffers loads is given after a dumps that returned b: b itself and,
\* for a tree document dumped without hooks and registered classes, b with
\* one byte replaced by 1 or by 128, or with its end cut off.
LoadInputs(b) ==
    {b} \cup
    IF generator = "none" /\ on_unknown = "none" /\ classes = {} /\ obj0 \in TreeDocs
    THEN {[b EXCEPT ![p] = x] : p \in 1..Len(b), x \in {1, 128}}
         \cup {SubSeq(b, 1, n) : n \in 0..(Len(b) - 1)}
    ELSE {}

Init ==
    /\ classes = {}
    /\ pc = "idle"
    /\ obj = NoValue
    /\ obj0 = NoValue
    /\ generator = "none"
    /\ on_unknown = "none"
    /\ estack = <<>>
    /\ traversal_stack = <<>>
    /\ hook_log = <<>>
    /\ warned = <<>>
    /\ out = <<>>
    /\ err = ""
    /\ data = <<>>
    /\ dstack = <<>>
    /\ calls = <<>>
    /\ result = NoValue
    /\ first = NoValue

\* The calls of dumps that are tried: every sample document with every
\* generator, and with an on_unknown hook where it holds a value the hook
\* would be called for.  Once classes are registered only the documents
\* naming a class are tried, the registry being read for no other.
DumpsCalls ==
    {<<o, gen, unk>> : o \in SampleDocs, gen \in Generators, unk \in {"none"}}
    \cup {<<o, gen, unk>> : o \in {d \in SampleDocs : HasUnknown(d)},
                           gen \in Generators, unk \in UnknownHooks}

Next ==
    \/ \E cls \in CodingClasses \cup {"Plain"} : import_class(cls)
    \/ /\ pc = "idle"
       /\ \E c \in DumpsCalls :
              /\ classes # {} => NamesClass(c[1])
              /\ Dumps(c[1], c[2], c[3])
    \/ EncodeScalar
    \/ EncodeDescend
    \/ EncodeReturn
    \/ /\ pc = "dumped"
       /\ \E buffer \in LoadInputs(out) : Loads(buffer)
    \/ DecodeScalar
    \/ DecodeDescend
    \/ DecodeReturn
    \/ Redump

Spec == Init /\ [][Next]_vars


(***************************************************************************)
(* Properties.                                                             *)
(***************************************************************************)
\* The little-endian signed 32-bit number at position p (from 0) of b.
LE32(b, p) ==
    b[p + 1] + (256 * b[p + 2]) + (65536 * b[p + 3])
    + (16777216 * (IF b[p + 4] >= 128 THEN b[p + 4] - 256 ELSE b[p + 4]))

\* A walk over an encoded container by the element sizes of the wire
\* format.  DocSpan: one past the trailing NUL of the container whose length
\* field starts at p, or -1 when its length field, or that of a container
\* inside it, is not the number of bytes from p through that NUL.
\* ElemsEnd: the position of the NUL that ends the element list at p.
RECURSIVE DocSpan(_, _), ElemsEnd(_, _)
DocSpan(b, p) ==
    IF p + 4 > Len(b) THEN -1
    ELSE LET q == ElemsEnd(b, p + 4)
         IN  IF q < 0 THEN -1
             ELSE IF LE32(b, p) = (q + 1) - p THEN q + 1
             ELSE -1

ElemsEnd(b, p) ==
    IF p >= Len(b) THEN -1
    ELSE IF b[p + 1] = 0 THEN p
    ELSE LET tag == b[p + 1]
             nul == FindNul(b, p + 1)
             v == nul + 1
         IN  IF nul < 0 THEN -1
             ELSE LET e == CASE tag \in {3, 4} -> DocSpan(b, v)
                             [] tag \in {1, 9, 17, 18} -> v + 8
                             [] tag = 2 -> v + 4 + LE32(b, v)
                             [] tag = 5 -> v + 5 + LE32(b, v)
                             [] tag = 7 -> v + 12
                             [] tag = 8 -> v + 1
                             [] tag = 10 -> v
                             [] tag = 16 -> v + 4
                             [] OTHER -> -1
                  IN  IF e < 0 \/ e > Len(b) THEN -1 ELSE ElemsEnd(b, e)

\* C2: in what dumps returns, the length field of the top-level document
\* and of every document and array inside it, custom-object documents
\* included, is the number of bytes from its own first byte through the
\* container's trailing NUL: the bytes of its elements plus 5.
C2_LengthPrefix == pc = "dumped" => DocSpan(out, 0) = Len(out)

\* A custom object inside an array inside the top-level document was
\* dumped, three length fields deep.
C2_Witness ==
    /\ pc = "dumped"
    /\ obj0.t = "dict"
    /\ Len(obj0.items) = 1
    /\ obj0.items[1].v.t = "list"
    /\ Len(obj0.items[1].v.elems) = 2
    /\ obj0.items[1].v.elems[2].t = "object"
    /\ obj0.items[1].v.elems[2].state # <<>>
    /\ DocSpan(out, 0) = Len(out)

KeyKey == KStr(<<107, 101, 121>>)

\* {"key": x}
IntDoc(x) == Dict(<<Item(KeyKey, PyInt(x))>>)

\* dumps(doc), called without hooks, has returned or raised.
Returned(doc) == obj0 = doc /\ generator = "none" /\ pc \notin {"idle", "dumps"}

\* dumps({"key": x}) wrote one element with this tag.
SelectsTag(x, tag) ==
    Returned(IntDoc(x)) => (err # "IntegerOverflow" /\ Len(out) > 5 /\ out[5] = tag)

\* dumps({"key": x}) raised the integer-overflow error and wrote nothing.
SelectsOverflow(x) ==
    Returned(IntDoc(x)) => (pc = "dump_failed" /\ err = "IntegerOverflow" /\ out = <<>>)

\* C3 as the specification has it: 2^31-1, 2^31, 2^63-1, 2^64-1 and 2^64
\* select int32, int64, uint64, uint64 and the overflow error.
C3_AsSpecified ==
    /\ SelectsTag(SignedMax(4), 16)
    /\ SelectsTag(TwoTo31, 18)
    /\ SelectsTag(SignedMax(8), 17)
    /\ SelectsTag(UnsignedMax(8), 17)
    /\ SelectsOverflow(TwoTo64)

\* C3: 2^31-1 selects the int32 tag 0x10, 2^31 and 2^63-1 the int64 tag
\* 0x12, 2^63 and 2^64-1 the uint64 tag 0x11, and 2^64 the integer-overflow
\* error with no element written.
C3_Boundaries ==
    /\ SelectsTag(SignedMax(4), 16)
    /\ SelectsTag(TwoTo31, 18)
    /\ SelectsTag(SignedMax(8), 18)
    /\ SelectsTag(TwoTo63, 17)
    /\ SelectsTag(UnsignedMax(8), 17)
    /\ SelectsOverflow(TwoTo64)

\* {"key": 2^63-1} was dumped with the int64 tag.
C3_Witness ==
    /\ pc = "dumped"
    /\ Returned(IntDoc(SignedMax(8)))
    /\ out[5] = 18
    /\ Len(out) = 18

\* The bytes an element name is written as, without the NUL that ends it.
NameBytes(n) == IF n.kt = "bytes" THEN n.by ELSE utf8_encode(str_key(n)).b

NulFree(n) == 0 \notin Range(NameBytes(n))

\* {n: b}
BoolDoc(n, b) == Dict(<<Item(n, Bool(b))>>)

\* int32le(len(utf8(n)) + 8), 0x08, utf8(n), 0x00, the payload byte, 0x00
BoolBytes(n, b) ==
    <<Len(NameBytes(n)) + 8, 0, 0, 0, 8>> \o NameBytes(n)
    \o <<0, IF b THEN 1 ELSE 0, 0>>

\* dumps({n: b}) is exactly BoolBytes(n, b).
BoolEncoded(n, b) == Returned(BoolDoc(n, b)) => (pc # "dump_failed" /\ out = BoolBytes(n, b))

\* loads of what dumps({n: b}) returned gives a one-item mapping whose
\* value is the boolean b.
BoolDecoded(n, b) ==
    (Returned(BoolDoc(n, b)) /\ pc \in {"loaded", "load_failed"} /\ data = out)
    => /\ pc = "loaded"
       /\ result.t = "dict"
       /\ Len(result.items) = 1
       /\ result.items[1].v = Bool(b)

\* C4 as the specification has it: for every element name without NUL,
\* dumps({n: b}) is the exact byte sequence and loads of it gives b back.
C4_AsSpecified ==
    \A n \in SampleKeys, b \in BOOLEAN :
        NulFree(n) => (BoolEncoded(n, b) /\ BoolDecoded(n, b))

\* C4: for every element name n without NUL and every boolean b,
\* dumps({n: b}) is int32le(len(utf8(n)) + 8), 0x08, utf8(n), 0x00, the
\* payload byte (0x01 for True, 0x00 for False), 0x00, so never an integer
\* tag; and for every such name but the class-marker key, loads of that
\* output gives a boolean equal to b.
C4_Boolean ==
    \A n \in SampleKeys, b \in BOOLEAN :
        NulFree(n) => /\ BoolEncoded(n, b)
                      /\ n # CLASSNAME_KEY => BoolDecoded(n, b)

\* {"\U0001F600": False} was dumped and loaded back.
C4_Witness ==
    /\ pc = "loaded"
    /\ Returned(BoolDoc(KStr(<<128512>>), FALSE))
    /\ out = <<12, 0, 0, 0, 8, 240, 159, 152, 128, 0, 0, 0>>
    /\ data = out
    /\ result = BoolDoc(KStr(<<128512>>), FALSE)

\* C5: for every call of decode_document, on the top-level document or on
\* a nested document or array, whose length field puts the byte at
\* base + length - 1 inside the buffer: when that byte is not NUL, loads has
\* failed with the malformed-document error and returned nothing.
C5_Terminator ==
    \A j \in 1..Len(calls) :
        LET base == calls[j]
        IN  base + 4 <= Len(data) =>
                LET length == LE32(data, base)
                IN  (/\ length >= 1 - base
                     /\ length <= Len(data) - base
                     /\ data[base + length] # 0)
                    => (pc = "load_failed" /\ err = "MalformedDocument"
                        /\ result = NoValue)

\* loads failed on a nested container whose last byte is not NUL, inside a
\* top-level document that ends in NUL.
C5_Witness ==
    /\ pc = "load_failed"
    /\ err = "MalformedDocument"
    /\ Len(calls) = 2
    /\ LE32(data, 0) = Len(data)
    /\ data[Len(data)] = 0
    /\ LE32(data, calls[2]) >= 5
    /\ calls[2] + LE32(data, calls[2]) < Len(data)
    /\ data[calls[2] + LE32(data, calls[2])] # 0

\* The value the decode_document call that is about to return hands back:
\* what loads returns, or what the calling iteration stores.
Returned_value ==
    IF Len(dstack) = 1 THEN result'
    ELSE IF dstack[Len(dstack) - 1].as_array THEN Last(Last(dstack').retval).v
    ELSE Lookup(Last(dstack').retval, dstack[Len(dstack) - 1].name)

\* The document a decode_document call is about to return holds the class
\* marker, and the marker names the registered class cls.
ReturnsObject(cls) ==
    /\ pc = "loads"
    /\ ~(Last(dstack).base < Last(dstack).end_point - 1)
    /\ ~Last(dstack).as_array
    /\ HasKey(Last(dstack).retval, CLASSNAME_KEY)
    /\ cls \in classes
    /\ Lookup(Last(dstack).retval, CLASSNAME_KEY) = Str(ClassNameText(cls))

\* C7 as the specification has it: a document with the class marker of a
\* registered class decodes to what bson_init, called with the whole
\* mapping, returned, and to the instance only when it returned nothing.
C7_AsSpecified ==
    [][\A cls \in CodingClasses :
          ReturnsObject(cls) =>
              LET init == bson_init(cls, Last(dstack).retval)
              IN  /\ pc' # "load_failed"
                  /\ Returned_value = IF init[2] # None THEN init[2]
                                      ELSE Object(cls, init[1])]_vars

\* C9 as the specification has it: once dumps has returned or raised, its
\* argument, with every container and object state in it, is as it was at
\* the call.
C9_AsSpecified == pc \in {"dumped", "dump_failed"} => obj = obj0

\* The traversal steps that lead to the container at path: one for each
\* ancestor, carrying that ancestor and the key or index taken in it.
PathSteps(path) ==
    [j \in 1..Len(path) |->
        [parent |-> [path |-> SubSeq(path, 1, j - 1), of |-> "self"],
         key |-> path[j]]]

\* C10: while dumps runs the traversal stack is the path of the container
\* being encoded; each time the traversal hook was called it was given,
\* for the document at a path, one step per ancestor from the top-level
\* value down, each with the container and the key or index used to descend
\* (none for the top-level document); and when dumps has returned the stack
\* is empty.
C10_TraversalStack ==
    /\ pc = "dumps" => traversal_stack = PathSteps(Last(estack).path)
    /\ \A j \in 1..Len(hook_log) :
           hook_log[j].stack = PathSteps(hook_log[j].obj.path)
    /\ pc = "dumped" => traversal_stack = <<>>

\* dumps returned after the hook was called for a document two levels
\* down, reached through a key and then an index.
C10_Witness ==
    /\ pc = "dumped"
    /\ traversal_stack = <<>>
    /\ \E j \in 1..Len(hook_log) :
           /\ Len(hook_log[j].stack) = 2
           /\ hook_log[j].stack[1].key.kt = "str"
           /\ hook_log[j].stack[2].key.kt = "index"
           /\ hook_log[j].stack[2].parent.path = <<hook_log[j].stack[1].key>>

\* The items encode_document goes through for a mapping or an object.
ItemsOf(v) == IF v.t = "object" THEN encode_object(v) ELSE v.items

\* Whether value holds, at any depth, a mapping with a NUL in a key.
RECURSIVE HasNulKey(_)
HasNulKey(value) ==
    CASE value.t \in {"dict", "object"} ->
           \E i \in 1..Len(ItemsOf(value)) :
               \/ ~NulFree(ItemsOf(value)[i].k)
               \/ HasNulKey(ItemsOf(value)[i].v)
      [] value.t \in {"list", "tuple"} ->
           \E i \in 1..Len(value.elems) : HasNulKey(value.elems[i])
      [] OTHER -> FALSE

\* Whether encoding value comes to a key with a NUL in it: any key of any
\* mapping without a traversal hook, a key the hook yields with one.
RECURSIVE VisitsNulKey(_)
VisitsNulKey(value) ==
    CASE value.t \in {"dict", "object"} ->
           LET keys == key_iter(ItemsOf(value), generator)
           IN  \E i \in 1..Len(keys) :
                   \/ ~NulFree(keys[i])
                   \/ VisitsNulKey(Lookup(ItemsOf(value), keys[i]))
      [] value.t \in {"list", "tuple"} ->
           \E i \in 1..Len(value.elems) : VisitsNulKey(value.elems[i])
      [] OTHER -> FALSE

\* The value found in root by following path.
RECURSIVE At(_, _)
At(value, path) ==
    IF path = <<>> THEN value
    ELSE At(IF value.t \in {"dict", "object"} THEN Lookup(ItemsOf(value), path[1])
            ELSE value.elems[path[1].idx + 1],
            Tail(path))

\* Whether value, under a name that is in order, is written without error.
Encodable(value) ==
    IsContainer(value) \/ encode_value(KeyKey, substitute(value, on_unknown)).err = ""

\* C8 as the specification has it: dumps of a value that holds a mapping
\* with a NUL in a key, with or without hooks, raises the invalid-name error
\* and returns no bytes.
C8_AsSpecified ==
    (pc \in {"dumped", "dump_failed"} /\ HasNulKey(obj0))
    => (pc = "dump_failed" /\ err = "InvalidName" /\ out = <<>>)

\* C8: dumps returns no bytes when encoding comes to a key with a NUL in
\* it, which is every key of every mapping, top-level or nested, when no
\* traversal hook is given and every key the hook yields otherwise, be the
\* key text, a byte string or coerced to text; and when dumps fails on the
\* element under such a key, the failure is the invalid-name error unless
\* the value under the key cannot be encoded itself.
C8_InvalidName ==
    /\ pc = "dumped" => ~VisitsNulKey(obj0)
    /\ pc = "dump_failed" =>
           /\ out = <<>>
           /\ LET step == Last(traversal_stack)
                  parent == At(obj, step.parent.path)
              IN  (/\ parent.t \in {"dict", "object"}
                   /\ ~NulFree(step.key)
                   /\ Encodable(Lookup(ItemsOf(parent), step.key)))
                  => err = "InvalidName"

\* dumps, called with a traversal hook, raised the invalid-name error for a
\* byte-string key with a NUL in a nested mapping.
C8_Witness ==
    /\ pc = "dump_failed"
    /\ err = "InvalidName"
    /\ out = <<>>
    /\ generator = "reversed"
    /\ Len(traversal_stack) = 2
    /\ traversal_stack[2].key = KBytes(<<0>>)
    /\ At(obj0, <<traversal_stack[1].key>>).t = "dict"

\* The key a decoded document has for the name key was written under.
KeyBack(key) ==
    IF key.kt = "bytes"
    THEN (IF utf8_decode(key.by).err = "" THEN KStr(utf8_decode(key.by).b) ELSE key)
    ELSE KStr(str_key(key))

RECURSIVE HasObject(_)
HasObject(value) ==
    CASE value.t = "object" -> TRUE
      [] value.t = "dict" ->
           \E i \in 1..Len(value.items) : HasObject(value.items[i].v)
      [] value.t \in {"list", "tuple"} ->
           \E i \in 1..Len(value.elems) : HasObject(value.elems[i])
      [] OTHER -> FALSE

RECURSIVE HasWidthTag(_)
HasWidthTag(value) ==
    CASE value.t \in {"Int32", "Int64", "UInt64"} -> TRUE
      [] value.t = "dict" ->
           \E i \in 1..Len(value.items) : HasWidthTag(value.items[i].v)
      [] value.t \in {"list", "tuple"} ->
           \E i \in 1..Len(value.elems) : HasWidthTag(value.elems[i])
      [] OTHER -> FALSE

\* Whether every mapping in value has keys that are written under
\* different names, none of them the class marker.
RECURSIVE PlainNames(_)
PlainNames(value) ==
    CASE value.t = "dict" ->
           /\ \A i \in 1..Len(value.items) :
                  /\ KeyBack(value.items[i].k) # CLASSNAME_KEY
                  /\ PlainNames(value.items[i].v)
                  /\ \A j \in 1..Len(value.items) :
                         i # j => NameBytes(value.items[i].k) # NameBytes(value.items[j].k)
      [] value.t \in {"list", "tuple"} ->
           \A i \in 1..Len(value.elems) : PlainNames(value.elems[i])
      [] OTHER -> TRUE

\* The instant of a timestamp in microseconds since the epoch.
Instant(value) ==
    IntAdd(IntMulSmall(IntMulSmall(IntAdd(value.secs, FromInt(-value.off)), 1000), 1000),
           FromInt(value.micro - value.off_micro))

\* Whether value holds a timestamp in the last second of the year 9999.
RECURSIVE HasLastSecond(_)
HasLastSecond(value) ==
    CASE value.t = "dict" ->
           \E i \in 1..Len(value.items) : HasLastSecond(value.items[i].v)
      [] value.t \in {"list", "tuple"} ->
           \E i \in 1..Len(value.elems) : HasLastSecond(value.elems[i])
      [] value.t = "datetime" ->
           IntLe(IntMulSmall(IntAdd(EndMillis, FromInt(-1000)), 1000), Instant(value))
      [] OTHER -> FALSE

\* dumps(v) has returned, without hooks, as the first dumps of the run, and
\* v satisfies ok.
FirstDumped(ok) == first # NoValue /\ generator = "none" /\ ok

\* loads(dumps(v)) returned and dumps of it gave the bytes of dumps(v).
Reencoded ==
    /\ (pc = "load_failed" => data # first.out)
    /\ (pc \in {"dumped", "dump_failed"} /\ result # NoValue)
       => (pc = "dumped" /\ out = first.out)

\* C6 as the specification has it: for every document v without custom
\* objects, dumps(loads(dumps(v))) is dumps(v), byte for byte.
C6_AsSpecified == FirstDumped(~HasObject(first.obj)) => Reencoded

\* C6: for every document v that holds no custom object, no width-tagged
\* integer, no class-marker key and no timestamp in the last second of the
\* year 9999, and whose keys are written under different names in every
\* mapping, dumps(loads(dumps(v))) is byte for byte dumps(v), the keys in
\* the same order both times.
C6_Idempotent ==
    FirstDumped(/\ ~HasObject(first.obj)
                /\ ~HasWidthTag(first.obj)
                /\ PlainNames(first.obj)
                /\ ~HasLastSecond(first.obj))
    => Reencoded

\* A document with a multi-byte key, a nested mapping and two more elements
\* was dumped, loaded and dumped again to the same bytes.
C6_Witness ==
    /\ pc = "dumped"
    /\ result # NoValue
    /\ first # NoValue
    /\ generator = "none"
    /\ out = first.out
    /\ first.obj.t = "dict"
    /\ Len(first.obj.items) = 2
    /\ first.obj.items[2].k = KStr(<<233>>)
    /\ first.obj.items[1].v.t = "dict"
    /\ Len(first.obj.items[1].v.items) = 1

\* The instant of a timestamp cut to the whole millisecond below, in
\* microseconds since the epoch.
TruncatedInstant(value) == IntMulSmall(IntFloorDiv(Instant(value), 1000), 1000)

\* back equals value, but for a decimal, which is the nearest double, and
\* a timestamp, which is the instant of value cut to whole milliseconds.
RECURSIVE EqualsNarrowed(_, _)
EqualsNarrowed(value, back) ==
    CASE value.t = "Decimal" -> back = float_of_decimal(value)
      [] value.t = "datetime" ->
           /\ back.t = "datetime"
           /\ Instant(back) = TruncatedInstant(value)
      [] value.t = "dict" ->
           /\ back.t = "dict"
           /\ Len(back.items) = Len(value.items)
           /\ \A i \in 1..Len(value.items) :
                  /\ back.items[i].k = value.items[i].k
                  /\ EqualsNarrowed(value.items[i].v, back.items[i].v)
      [] value.t \in {"list", "tuple"} ->
           /\ back.t = value.t
           /\ Len(back.elems) = Len(value.elems)
           /\ \A i \in 1..Len(value.elems) :
                  EqualsNarrowed(value.elems[i], back.elems[i])
      [] OTHER -> back = value

\* C1 as the specification has it: for every tree v of supported scalars,
\* documents and arrays (no custom object, no value of another type) whose
\* element names have no NUL, loads(dumps(v)) equals v, but that a decimal
\* comes back as a double and a timestamp cut to whole milliseconds.
C1_AsSpecified ==
    (/\ pc \in {"dump_failed", "loaded", "load_failed"}
     /\ generator = "none"
     /\ pc # "dump_failed" => data = out
     /\ ~HasObject(obj0)
     /\ ~HasUnknown(obj0)
     /\ ~HasNulKey(obj0))
    => (pc = "loaded" /\ EqualsNarrowed(obj0, result))

=============================================================================
